---- MODULE Spec2Model ----
(***************************************************************************)
(* Model of Organizer.py: one pass over os.listdir(path) that moves every  *)
(* direct entry of the target directory into the subdirectory named after  *)
(* its extension.                                                          *)
(*                                                                         *)
(* The filesystem is a set of nodes [path, kind, id].  A path is a         *)
(* sequence of names, a name is a sequence of one-character strings, the   *)
(* id is the identity of the object (it survives a rename).  Nodes are     *)
(* regular files and directories; symbolic links, permissions and several  *)
(* devices are outside the model (spec.md section 1 lists them as          *)
(* non-goals).                                                             *)
(***************************************************************************)
EXTENDS Integers, Sequences, FiniteSets, TLC

VARIABLES path, files, todo, file, extension, fs, out, pc, raisedLine,
          run, fs0, fsStart, res1

vars == <<path, files, todo, file, extension, fs, out, pc, raisedLine,
          run, fs0, fsStart, res1>>

(***************************************************************************)
(* Bounds                                                                  *)
(***************************************************************************)
MaxLen == 4

MaxEntries == 3

MaxChildren == 1

MaxRuns == 2

(***************************************************************************)
(* Names                                                                   *)
(***************************************************************************)
extsep == "."

Alphabet == {"a", "b", extsep}

RECURSIVE NamesOfLen(_)
NamesOfLen(n) ==
  IF n = 0 THEN {<<>>}
  ELSE {Append(s, c) : s \in NamesOfLen(n - 1), c \in Alphabet}

AllNames == UNION {NamesOfLen(n) : n \in 1..MaxLen}

(***************************************************************************)
(* os.path.splitext (genericpath._splitext with sep = "/", altsep = None). *)
(* Indices are 1-based here, so "not found" is 0 where Python has -1.      *)
(***************************************************************************)
RECURSIVE rfind(_, _, _)
rfind(p, c, i) ==
  IF i = 0 THEN 0
  ELSE IF p[i] = c THEN i
  ELSE rfind(p, c, i - 1)

\* the while loop of _splitext: TRUE iff a character other than extsep
\* stands before dotIndex
RECURSIVE HasRoot(_, _, _)
HasRoot(p, filenameIndex, dotIndex) ==
  IF filenameIndex >= dotIndex THEN FALSE
  ELSE IF p[filenameIndex] # extsep THEN TRUE
  ELSE HasRoot(p, filenameIndex + 1, dotIndex)

\* a plausible slip: split at the first separator instead of the last
splitextFirstDot(p) ==
  LET dots == {i \in 1..Len(p) : p[i] = extsep}
      d == IF dots = {} THEN 0 ELSE CHOOSE i \in dots : \A j \in dots : i <= j
  IN IF d > 1
     THEN <<SubSeq(p, 1, d - 1), SubSeq(p, d, Len(p))>>
     ELSE <<p, <<>>>>

splitext(p) ==
  LET sepIndex == rfind(p, "/", Len(p))
      dotIndex == rfind(p, extsep, Len(p))
  IN IF dotIndex > sepIndex /\ HasRoot(p, sepIndex + 1, dotIndex)
     THEN <<SubSeq(p, 1, dotIndex - 1), SubSeq(p, dotIndex, Len(p))>>
     ELSE <<p, <<>>>>

\* a plausible slip: the leading separator is not stripped
ExtensionKeyKeepDot(f) == splitext(f)[2]

\* lines 8-9: filename, extension = splitext(file); extension = extension[1:]
ExtensionKey(f) ==
  LET ext == splitext(f)[2]
  IN SubSeq(ext, 2, Len(ext))

(***************************************************************************)
(* The filesystem                                                          *)
(***************************************************************************)
IsPrefix(s, t) == Len(s) <= Len(t) /\ SubSeq(t, 1, Len(s)) = s

Parent(p) == SubSeq(p, 1, Len(p) - 1)

Basename(p) == p[Len(p)]

NodeAt(f, p) == CHOOSE n \in f : n.path = p

\* os.path.exists
Exists(f, p) == \E n \in f : n.path = p

\* os.path.isdir
IsDir(f, p) == \E n \in f : n.path = p /\ n.kind = "dir"

\* os.path.join(p, name): an empty name only adds a trailing separator,
\* which names the directory p itself
Join(p, name) == IF name = <<>> THEN p ELSE Append(p, name)

\* the names os.listdir(p) returns
DirEntries(f, p) ==
  {Basename(n.path) : n \in {m \in f : Len(m.path) = Len(p) + 1 /\ IsPrefix(p, m.path)}}

Subtree(f, p) == {n \in f : IsPrefix(p, n.path)}

Rebase(n, src, dst) ==
  [n EXCEPT !.path = dst \o SubSeq(n.path, Len(src) + 1, Len(n.path))]

\* os.rename(src, dst) on one device: [ok, fs]
OsRename(f, src, dst) ==
  LET failed == [ok |-> FALSE, fs |-> f]
      renamed == [ok |-> TRUE,
                  fs |-> {n \in f : ~IsPrefix(src, n.path) /\ ~IsPrefix(dst, n.path)}
                         \cup {Rebase(n, src, dst) : n \in Subtree(f, src)}]
  IN IF ~Exists(f, src) \/ ~IsDir(f, Parent(dst)) THEN failed
     ELSE IF src = dst THEN [ok |-> TRUE, fs |-> f]
     ELSE IF IsPrefix(src, dst) THEN failed
     ELSE IF ~Exists(f, dst) THEN renamed
     ELSE IF IsDir(f, src)
          THEN IF IsDir(f, dst) /\ Subtree(f, dst) = {NodeAt(f, dst)}
               THEN renamed ELSE failed
          ELSE IF IsDir(f, dst) THEN failed ELSE renamed

\* a plausible slip: the entry is copied and the source is never removed
ShutilCopy(f, src, dst) ==
  IF ~Exists(f, src) \/ ~IsDir(f, Parent(dst)) \/ Exists(f, dst)
  THEN [ok |-> FALSE, fs |-> f]
  ELSE [ok |-> TRUE, fs |-> f \cup {Rebase(n, src, dst) : n \in Subtree(f, src)}]

\* shutil.move(src, dst): [ok, fs].  When os.rename raises OSError the
\* copy fallback (copy2 / copytree) fails on the same obstacle before it
\* writes anything, so a failed move leaves the filesystem as it was.
ShutilMove(f, src, dst) ==
  LET real_dst == IF IsDir(f, dst) THEN Append(dst, Basename(src)) ELSE dst
  IN IF IsDir(f, dst) /\ Exists(f, real_dst)
     THEN [ok |-> FALSE, fs |-> f]
     ELSE OsRename(f, src, real_dst)

NewId(p) == <<<<"*">>>> \o p

\* os.makedirs(p): [ok, fs]
RECURSIVE MakeDirs(_, _)
MakeDirs(f, p) ==
  LET head == Parent(p)
      up == IF Len(p) > 1 /\ ~Exists(f, head) THEN MakeDirs(f, head)
            ELSE [ok |-> TRUE, fs |-> f]
  IN IF ~up.ok \/ Exists(up.fs, p) \/ ~IsDir(up.fs, head)
     THEN [ok |-> FALSE, fs |-> up.fs]
     ELSE [ok |-> TRUE,
           fs |-> up.fs \cup {[path |-> p, kind |-> "dir", id |-> NewId(p)]}]

(***************************************************************************)
(* One iteration of the loop, lines 8-21, on filesystem f for entry name.  *)
(* The result carries the new filesystem, the branch taken, whether line   *)
(* 18 printed, and the line that raised (0 when none did).                 *)
(***************************************************************************)
\* a plausible slip: the existence check of line 15 is missing
ProcessEntryNoCheck(f, p, name) ==
  LET destination_folder == Join(p, ExtensionKey(name))
      made == IF Exists(f, destination_folder) THEN [ok |-> TRUE, fs |-> f]
              ELSE MakeDirs(f, destination_folder)
      m == ShutilMove(made.fs, Join(p, name), Join(destination_folder, name))
  IN [fs |-> m.fs,
      branch |-> IF Exists(f, destination_folder) THEN "move" ELSE "makedirs",
      printed |-> FALSE,
      raised |-> IF m.ok THEN 0 ELSE 16]

\* a plausible slip: the folder is joined to the directory above the target
ProcessEntryWrongBase(f, p, name) ==
  LET destination_folder == Join(Parent(p), ExtensionKey(name))
      made == IF Exists(f, destination_folder) THEN [ok |-> TRUE, fs |-> f]
              ELSE MakeDirs(f, destination_folder)
      destination_path == Join(destination_folder, name)
      m == ShutilMove(made.fs, Join(p, name), destination_path)
  IN IF Exists(f, destination_path)
     THEN [fs |-> f, branch |-> "print", printed |-> TRUE, raised |-> 0]
     ELSE [fs |-> m.fs,
           branch |-> IF Exists(f, destination_folder) THEN "move" ELSE "makedirs",
           printed |-> FALSE,
           raised |-> IF m.ok THEN 0 ELSE 16]

\* a plausible slip: on a conflict the source is removed as a duplicate
ProcessEntryDeleteOnConflict(f, p, name) ==
  LET destination_folder == Join(p, ExtensionKey(name))
      made == IF Exists(f, destination_folder) THEN [ok |-> TRUE, fs |-> f]
              ELSE MakeDirs(f, destination_folder)
      destination_path == Join(destination_folder, name)
      m == ShutilMove(made.fs, Join(p, name), destination_path)
  IN IF Exists(f, destination_path)
     THEN [fs |-> f \ Subtree(f, Join(p, name)), branch |-> "print",
           printed |-> TRUE, raised |-> 0]
     ELSE [fs |-> m.fs,
           branch |-> IF Exists(f, destination_folder) THEN "move" ELSE "makedirs",
           printed |-> FALSE,
           raised |-> IF m.ok THEN 0 ELSE 16]

ProcessEntry(f, p, name) ==
  LET destination_folder == Join(p, ExtensionKey(name))
  IN IF Exists(f, destination_folder)
     THEN LET destination_path == Join(destination_folder, name)
          IN IF ~Exists(f, destination_path)
             THEN LET m == ShutilMove(f, Join(p, name), destination_path)
                  IN [fs |-> m.fs, branch |-> "move", printed |-> FALSE,
                      raised |-> IF m.ok THEN 0 ELSE 16]
             ELSE [fs |-> f, branch |-> "print", printed |-> TRUE, raised |-> 0]
     ELSE LET d == MakeDirs(f, destination_folder)
              m == ShutilMove(d.fs, Join(p, name), Join(destination_folder, name))
          IN IF ~d.ok
             THEN [fs |-> d.fs, branch |-> "makedirs", printed |-> FALSE, raised |-> 20]
             ELSE [fs |-> m.fs, branch |-> "makedirs", printed |-> FALSE,
                   raised |-> IF m.ok THEN 0 ELSE 21]

(***************************************************************************)
(* Initial filesystems                                                     *)
(***************************************************************************)
Target == <<<<"d">>>>

OutsideDir == <<<<"o">>>>

N_at == <<"a", ".", "t">>

N_bt == <<"b", ".", "t">>

N_atj == <<"a", ".", "t", ".", "j">>

N_t == <<"t">>

N_dott == <<".", "t">>

N_c == <<"c">>

TopNames == {N_at, N_bt, N_atj, N_t, N_dott}

ChildNames == {N_at, N_c}

InitNode(p, k) == [path |-> p, kind |-> k, id |-> p]

BaseNodes ==
  {InitNode(<<>>, "dir"), InitNode(OutsideDir, "dir"),
   InitNode(Append(OutsideDir, N_at), "file"),
   InitNode(Append(OutsideDir, N_t), "dir")}

ChildSets == {c \in SUBSET ChildNames : Cardinality(c) <= MaxChildren}

Options ==
  {o \in [kind : {"absent", "file", "dir"}, children : ChildSets] :
     o.kind # "dir" => o.children = {}}

Layouts ==
  {l \in [TopNames -> Options] :
     Cardinality({n \in TopNames : l[n].kind # "absent"}) <= MaxEntries}

LayoutNodes(l) ==
  UNION {IF l[n].kind = "absent" THEN {}
         ELSE {InitNode(Append(Target, n), l[n].kind)}
              \cup {InitNode(Append(Append(Target, n), c), "file") : c \in l[n].children}
         : n \in TopNames}

InitFS ==
  {BaseNodes \cup {InitNode(Target, "dir")} \cup LayoutNodes(l) : l \in Layouts}
  \cup {BaseNodes, BaseNodes \cup {InitNode(Target, "file")}}

NoResult == [fs |-> {}, out |-> {}, pc |-> "none", line |-> 0]

(***************************************************************************)
(* The program                                                             *)
(***************************************************************************)
Init ==
  /\ path = Target
  /\ fs \in InitFS
  /\ fs0 = fs
  /\ fsStart = fs
  /\ files = {}
  /\ todo = {}
  /\ file = <<>>
  /\ extension = <<>>
  /\ out = {}
  /\ pc = "input"
  /\ raisedLine = 0
  /\ run = 1
  /\ res1 = NoResult

\* a plausible slip: an unreadable target is created and treated as empty
ListDirCreates ==
  /\ pc = "input"
  /\ IF IsDir(fs, path)
     THEN /\ fs' = fs
          /\ files' = DirEntries(fs, path)
     ELSE /\ fs' = {n \in fs : n.path # path} \cup {[path |-> path, kind |-> "dir", id |-> NewId(path)]}
          /\ files' = {}
  /\ todo' = files'
  /\ pc' = "loop"
  /\ UNCHANGED <<path, file, extension, out, raisedLine, run, fs0, fsStart, res1>>

\* line 5, os.listdir(path) raises: the process ends with a traceback
ListDirRaises ==
  /\ pc = "input"
  /\ ~IsDir(fs, path)
  /\ pc' = "raised"
  /\ raisedLine' = 5
  /\ UNCHANGED <<path, files, todo, file, extension, fs, out, run, fs0, fsStart, res1>>

\* line 5, files = os.listdir(path); the order of the listing is the order
\* in which the loop below picks from todo
ListDir ==
  /\ pc = "input"
  /\ IsDir(fs, path)
  /\ files' = DirEntries(fs, path)
  /\ todo' = files'
  /\ pc' = "loop"
  /\ UNCHANGED <<path, file, extension, fs, out, raisedLine, run, fs0, fsStart, res1>>

\* lines 7-21 for the entry name, whose iteration gave the result r
Iterate(name, r) ==
  /\ file' = name
  /\ extension' = ExtensionKey(name)
  /\ todo' = todo \ {name}
  /\ fs' = r.fs
  /\ out' = IF r.printed THEN out \cup {name} ELSE out
  /\ pc' = IF r.raised # 0 THEN "raised" ELSE "loop"
  /\ raisedLine' = r.raised
  /\ UNCHANGED <<path, files, run, fs0, fsStart, res1>>

\* lines 13-16: the folder exists, the entry is moved into it
MoveIntoExisting ==
  /\ pc = "loop"
  /\ \E name \in todo :
       LET r == ProcessEntry(fs, path, name)
       IN r.branch = "move" /\ r.raised = 0 /\ Iterate(name, r)

\* lines 16, 20, 21: shutil.move or os.makedirs raises, nothing catches it
MoveRaises ==
  /\ pc = "loop"
  /\ \E name \in todo :
       LET r == ProcessEntry(fs, path, name)
       IN r.raised # 0 /\ Iterate(name, r)

\* lines 17-18: the destination path exists, the message is printed
PrintConflict ==
  /\ pc = "loop"
  /\ \E name \in todo :
       LET r == ProcessEntry(fs, path, name)
       IN r.branch = "print" /\ r.raised = 0 /\ Iterate(name, r)

\* lines 19-21: the folder is created and the entry moved into it
MakeAndMove ==
  /\ pc = "loop"
  /\ \E name \in todo :
       LET r == ProcessEntry(fs, path, name)
       IN r.branch = "makedirs" /\ r.raised = 0 /\ Iterate(name, r)

\* the listing is exhausted, the script ends
LoopExit ==
  /\ pc = "loop"
  /\ todo = {}
  /\ pc' = "done"
  /\ UNCHANGED <<path, files, todo, file, extension, fs, out, raisedLine, run, fs0, fsStart, res1>>

StartRun(f) ==
  /\ run' = run + 1
  /\ res1' = [fs |-> fs, out |-> out, pc |-> pc, line |-> raisedLine]
  /\ fs' = f
  /\ fsStart' = f
  /\ files' = {}
  /\ todo' = {}
  /\ file' = <<>>
  /\ extension' = <<>>
  /\ out' = {}
  /\ pc' = "input"
  /\ raisedLine' = 0
  /\ UNCHANGED <<path, fs0>>

\* the script is started again on the same target
Rerun ==
  /\ pc \in {"done", "raised"}
  /\ run < MaxRuns
  /\ StartRun(fs)

\* the script is started on a target restored to its initial content
Replay ==
  /\ pc \in {"done", "raised"}
  /\ run < MaxRuns
  /\ StartRun(fs0)

Program ==
  \/ ListDir
  \/ ListDirRaises
  \/ MoveIntoExisting
  \/ MoveRaises
  \/ PrintConflict
  \/ MakeAndMove
  \/ LoopExit

Next == Program \/ Rerun

Spec == Init /\ [][Next]_vars

NextOrder == Program \/ Replay

SpecOrder == Init /\ [][NextOrder]_vars

(***************************************************************************)
(* The extension key alone, over every name of at most MaxLen characters   *)
(***************************************************************************)
InitKey ==
  /\ path = Target
  /\ fs = {}
  /\ fs0 = {}
  /\ fsStart = {}
  /\ files = {}
  /\ todo = {}
  /\ file \in AllNames
  /\ extension = <<>>
  /\ out = {}
  /\ pc = "key"
  /\ raisedLine = 0
  /\ run = 1
  /\ res1 = NoResult

\* lines 8-9 applied to file
ComputeKey ==
  /\ pc = "key"
  /\ extension' = ExtensionKey(file)
  /\ pc' = "keyed"
  /\ UNCHANGED <<path, files, todo, file, fs, out, raisedLine, run, fs0, fsStart, res1>>

NextKey == ComputeKey

SpecKey == InitKey /\ [][NextKey]_vars

(***************************************************************************)
(* Vocabulary of the properties                                            *)
(***************************************************************************)
Dots(name) == {i \in 1..Len(name) : name[i] = "."}

LastDot(name) == CHOOSE i \in Dots(name) : \A j \in Dots(name) : j <= i

\* the portion of the name after its final ".", empty when it has none
AfterLastDot(name) ==
  IF Dots(name) = {} THEN <<>>
  ELSE SubSeq(name, LastDot(name) + 1, Len(name))

\* the same, except that a final "." with nothing but "." before it
\* starts no extension
KeyOf(name) ==
  IF Dots(name) = {} \/ \A i \in 1..LastDot(name) : name[i] = "."
  THEN <<>>
  ELSE AfterLastDot(name)

Src(name) == Append(path, name)

FolderOf(name) == IF KeyOf(name) = <<>> THEN path ELSE Append(path, KeyOf(name))

Dst(name) == Append(FolderOf(name), name)

Processed == files \ todo

\* the object that was at p in filesystem f is at q in filesystem g
SameObject(f, p, g, q) ==
  /\ Exists(f, p)
  /\ Exists(g, q)
  /\ NodeAt(g, q).id = NodeAt(f, p).id
  /\ NodeAt(g, q).kind = NodeAt(f, p).kind

\* everything that was at or below p in f is still at the same place in g
Kept(f, p, g) == Subtree(f, p) \subseteq g

(***************************************************************************)
(* C7: the key the program computes for a name is the portion after the    *)
(* final "." when some character other than "." stands before that final   *)
(* ".", and is empty otherwise; so it is empty exactly when the name has   *)
(* no ".", ends with ".", or has only "." before its final ".".            *)
(***************************************************************************)
C7_ExtensionKey ==
  pc = "keyed" =>
    /\ extension = KeyOf(file)
    /\ extension = <<>> <=>
         \/ Dots(file) = {}
         \/ file[Len(file)] = "."
         \/ \A i \in 1..LastDot(file) : file[i] = "."

C7_Witness ==
  /\ pc = "keyed"
  /\ file = <<".", "a", ".", "b">>
  /\ extension = <<"b">>

\* C7 as first stated: always the portion after the final ".", and empty
\* exactly when the name has no "."
C7_Original ==
  pc = "keyed" =>
    /\ extension = AfterLastDot(file)
    /\ extension = <<>> <=> Dots(file) = {}

(***************************************************************************)
(* C1: after a run that completes, every entry of the listing whose        *)
(* <target>/<E>/<name> did not exist when the run started (with an empty   *)
(* E that path is <target>/<name>, the entry itself) is at                 *)
(* <target>/<E>/<name> with all it contained and no longer at              *)
(* <target>/<name>; every other entry is still at <target>/<name>.         *)
(***************************************************************************)
C1_Organized ==
  pc = "done" =>
    \A name \in files :
      IF Exists(fsStart, Dst(name))
      THEN Kept(fsStart, Src(name), fs)
      ELSE /\ ~Exists(fs, Src(name))
           /\ \A n \in Subtree(fsStart, Src(name)) :
                Rebase(n, Src(name), Dst(name)) \in fs

C1_Witness ==
  /\ pc = "done"
  /\ run = 1
  /\ files = {N_at, N_bt, N_atj}
  /\ \A name \in files : SameObject(fs0, Src(name), fs, Dst(name))
  /\ \A name \in files : ~Exists(fs, Src(name))

\* C1 as first stated: every entry of the listing has moved
C1_Original ==
  pc = "done" =>
    \A name \in files :
      /\ SameObject(fsStart, Src(name), fs, Dst(name))
      /\ ~Exists(fs, Src(name))

(***************************************************************************)
(* C2: when an entry is processed while <target>/<E>/<name> exists, the    *)
(* step moves nothing, keeps the entry and the pre-existing path as they   *)
(* are and prints the message for the entry; and at every later point of   *)
(* the run both are still where and what they were when the run started.   *)
(***************************************************************************)
C2_Step ==
  \A name \in todo :
    (pc = "loop" /\ name \notin todo' /\ Exists(fs, Dst(name))) =>
      /\ Kept(fs, Src(name), fs')
      /\ Kept(fs, Dst(name), fs')
      /\ name \in out'
      /\ pc' = "loop"

C2_Kept ==
  \A name \in Processed :
    Exists(fsStart, Dst(name)) =>
      /\ Kept(fsStart, Src(name), fs)
      /\ Kept(fsStart, Dst(name), fs)
      /\ name \in out

C2_Conflict == [][C2_Step]_vars /\ []C2_Kept

C2_Witness ==
  /\ pc = "done"
  /\ N_at \in out
  /\ N_bt \in Processed \ out
  /\ Exists(fs, Src(N_at))
  /\ SameObject(fsStart, Dst(N_at), fs, Dst(N_at))

(***************************************************************************)
(* C3: a run started on what a completed run left moves nothing, creates   *)
(* no folder, does not raise and prints only for entries of its listing.   *)
(***************************************************************************)
C3_Idempotent ==
  (run > 1 /\ res1.pc = "done") =>
    /\ fs = res1.fs
    /\ pc # "raised"
    /\ out \subseteq files

C3_Witness ==
  /\ run = 2
  /\ pc = "done"
  /\ res1.pc = "done"
  /\ res1.fs # fs0
  /\ N_at \in out
  /\ N_t \in out

(***************************************************************************)
(* C5: when the target is missing or is not a directory, the run raises    *)
(* at the listing: nothing is created or moved, nothing is printed and no  *)
(* entry is processed.                                                     *)
(***************************************************************************)
C5_AccessError ==
  ~IsDir(fsStart, path) =>
    /\ fs = fsStart
    /\ out = {}
    /\ files = {}
    /\ pc \in {"input", "raised"}
    /\ pc = "raised" => raisedLine = 5

C5_Witness ==
  /\ pc = "raised"
  /\ raisedLine = 5
  /\ ~Exists(fs, path)
  /\ fs = fs0

(***************************************************************************)
(* C4: a move that raises ends the work on that entry only, the entries    *)
(* of the listing that remain are still processed in the same run.         *)
(***************************************************************************)
C4_MoveFailureNonFatal ==
  (pc = "raised" /\ raisedLine # 5) => todo = {}

(***************************************************************************)
(* C8: after a run that completes, an entry with an empty key is inside a  *)
(* subdirectory of the target and no longer directly in the target, and    *)
(* no message was printed for it unless that subdirectory already held an  *)
(* entry of the same name.                                                 *)
(***************************************************************************)
C8_NoExtensionGrouped ==
  pc = "done" =>
    \A name \in {n \in files : KeyOf(n) = <<>>} :
      /\ ~Exists(fs, Src(name))
      /\ \E d \in DirEntries(fs, path) :
           /\ SameObject(fsStart, Src(name), fs, <<path[1], d, name>>)
           /\ name \in out => Exists(fsStart, <<path[1], d, name>>)

(***************************************************************************)
(* C9: two runs from the same initial directory whose listings come in     *)
(* different orders end with the same filesystem and the same set of       *)
(* entries reported as conflicts.                                          *)
(***************************************************************************)
C9_OrderIndependent ==
  (run > 1 /\ pc \in {"done", "raised"}) =>
    /\ fs = res1.fs
    /\ out = res1.out

(***************************************************************************)
(* C6: a step changes the filesystem only by creating a directory          *)
(* directly under the target or by moving an entry that sat directly in    *)
(* the target into a directory directly under it.  Nothing outside the     *)
(* target changes, and an entry inside a subdirectory of the target is     *)
(* never removed or renamed: its path changes only when it lies inside a   *)
(* directory entry that is itself moved, and then it keeps its place       *)
(* inside that entry.                                                      *)
(***************************************************************************)
Inside(p) == IsPrefix(path, p) /\ Len(p) > Len(path)

Direct(p) == IsPrefix(path, p) /\ Len(p) = Len(path) + 1

\* n is part of a direct entry that this step moved into the subdirectory d
MovedWith(n, name, d) ==
  /\ IsPrefix(Src(name), n.path)
  /\ ~Exists(fs', Src(name))
  /\ IsDir(fs', Append(path, d))
  /\ \A m \in Subtree(fs, Src(name)) :
       Rebase(m, Src(name), <<path[1], d, name>>) \in fs'

FrameStep ==
  /\ \A n \in (fs \ fs') \cup (fs' \ fs) : Inside(n.path)
  /\ \A n \in fs \ fs' :
       \E name \in DirEntries(fs, path), d \in DirEntries(fs', path) :
         MovedWith(n, name, d)
  /\ \A n \in fs' \ fs :
       \/ Direct(n.path) /\ n.kind = "dir" /\ ~Exists(fs, n.path)
            /\ \A m \in fs : m.id # n.id
       \/ \E name \in DirEntries(fs, path), d \in DirEntries(fs', path) :
            \E m \in Subtree(fs, Src(name)) :
              /\ MovedWith(m, name, d)
              /\ n = Rebase(m, Src(name), <<path[1], d, name>>)

C6_Frame == [][FrameStep]_vars

C6_Witness ==
  /\ pc = "done"
  /\ run = 1
  /\ IsDir(fs0, Src(N_at))
  /\ Exists(fs0, Append(Src(N_at), N_c))
  /\ ~Exists(fs0, Append(path, N_t))
  /\ SameObject(fs0, Append(Src(N_at), N_c), fs, Append(Dst(N_at), N_c))
  /\ {n \in fs : ~IsPrefix(path, n.path)} = BaseNodes

\* C6 as first stated: besides the frame above, no entry that is inside a
\* subdirectory of the target changes its path at all
C6_Original ==
  [][FrameStep /\ \A n \in fs : (Inside(n.path) /\ ~Direct(n.path)) => n \in fs']_vars

(***************************************************************************)
(* C10: in every state, aborted runs included, every object of the        *)
(* initial filesystem exists exactly once: an entry of the initial         *)
(* listing at <target>/<name> or at <target>/<key>/<name>, whatever was    *)
(* inside such an entry at the same place inside it, everything else       *)
(* where it was; no two paths hold the same object, and a directory the    *)
(* run created is still directly under the target where it was created.    *)
(***************************************************************************)
Listing0 == DirEntries(fs0, path)

C10_NoLoss ==
  /\ \A n \in fs : \A m \in fs : (n.id = m.id \/ n.path = m.path) => n = m
  /\ \A n0 \in fs0 :
       IF \E name \in Listing0 : IsPrefix(Src(name), n0.path)
       THEN \E name \in Listing0 :
              /\ IsPrefix(Src(name), n0.path)
              /\ \/ n0 \in fs
                 \/ Rebase(n0, Src(name), Dst(name)) \in fs
       ELSE n0 \in fs
  /\ \A n \in fs \ fs0 :
       \/ \E n0 \in fs0 : n.id = n0.id
       \/ n.id = NewId(n.path) /\ n.kind = "dir" /\ Direct(n.path)

C10_Witness ==
  /\ pc = "raised"
  /\ raisedLine = 16
  /\ todo # {}
  /\ N_atj \in Processed
  /\ SameObject(fs0, Src(N_atj), fs, Dst(N_atj))
  /\ ~Exists(fs, Src(N_atj))

====
